---- MODULE Spec2Model ----
(***************************************************************************)
(* Timeline (Gantt) widget of yasinthaj/time-scape-maker: the task         *)
(* collection held by Timeline, the dependency store held by TimelineGrid, *)
(* and the per-bar drag state of TaskBar.                                  *)
(*                                                                         *)
(* A Date is an integer number of ticks; one calendar day is TicksPerDay   *)
(* ticks, tick 0 is local midnight of "today".  A date whose tick is not a *)
(* multiple of TicksPerDay carries a time of day (the drawer's default     *)
(* `new Date()`).  The vertical pointer coordinate is represented by the   *)
(* hit-test target only (which task's row and bar the pointer is over).    *)
(*                                                                         *)
(* lastEvent is a history variable: the event delivered last, its argument *)
(* and the callbacks (onTaskUpdate, onDependencyCreate) its handlers       *)
(* invoked, in order.                                                      *)
(***************************************************************************)
EXTENDS Integers, Sequences, FiniteSets, TLC

VARIABLES variant, tasks, dependencies, zoomLevel, searchQuery, statusFilter,
          sortBy, bars, drawer, lastEvent

vars == <<variant, tasks, dependencies, zoomLevel, searchQuery, statusFilter,
          sortBy, bars, drawer, lastEvent>>

(***************************************************************************)
(* Bounds of the model.                                                    *)
(***************************************************************************)
TicksPerDay == 2
MaxShift == 1
MaxDeps == 2
MaxTasks == 3

null == "null"

(***************************************************************************)
(* Grid variants present in the repository: "A" is the first grid of       *)
(* unnamed/part_000 (duplicate check, delete, orthogonal routing), "B" the *)
(* second grid of that file (duplicate check, no delete, a label drawn for *)
(* an edge with a missing endpoint), "G" is                                *)
(* src/components/TimelineGrid.tsx, the file Timeline.tsx imports.         *)
(***************************************************************************)
Variants == {"A", "B", "G"}

ZoomLevels == {"day", "week", "month"}
Statuses == {"todo", "in-progress", "completed", "overdue"}
DragTypes == {"move", "resize-start", "resize-end"}

(***************************************************************************)
(* date-fns and Math helpers, computed as the library computes them.       *)
(***************************************************************************)
startOfDay(d) == d - (d % TicksPerDay)

addDays(d, n) == d + n * TicksPerDay

\* full days between two instants, truncated towards zero
differenceInDays(dateLeft, dateRight) ==
  IF dateLeft >= dateRight
    THEN (dateLeft - dateRight) \div TicksPerDay
    ELSE 0 - ((dateRight - dateLeft) \div TicksPerDay)

\* Math.round(n / d) for d > 0: halves round towards +infinity
MathRound(n, d) == (2 * n + d) \div (2 * d)

MathMax(a, b) == IF a >= b THEN a ELSE b

(***************************************************************************)
(* The visible window and the pixel scale.                                 *)
(***************************************************************************)
WindowBefore == 60
WindowAfter == 180

NowTicks == 0 .. (TicksPerDay - 1)

today == startOfDay(TicksPerDay - 1)

startDate == addDays(today, 0 - WindowBefore)

endDate == addDays(today, WindowAfter)

pixelsPerDay(z) == IF z = "day" THEN 120 ELSE IF z = "week" THEN 60 ELSE 40

\* the step of the column loop that advances by the unit of the zoom level
nextColumn_byZoomUnit(currentDate, z) ==
  IF z = "day" THEN addDays(currentDate, 1)
  ELSE IF z = "week" THEN addDays(currentDate, 7)
  ELSE addDays(currentDate, 30)

\* the switch on zoomLevel inside the column loop: one day in every case
nextColumn(currentDate, z) ==
  IF z = "day" THEN addDays(currentDate, 1)
  ELSE IF z = "week" THEN addDays(currentDate, 1)
  ELSE addDays(currentDate, 1)

\* while (currentDate <= endDate) { dates.push(currentDate); ... }
\* one pass of `while (currentDate <= endDate) { dates.push(currentDate);
\* ... }` over the loop's two variables; a pass after the loop has ended
\* changes nothing
columnStep(loop, z) ==
  IF loop.currentDate <= endDate
    THEN [currentDate |-> nextColumn(loop.currentDate, z),
          dates |-> Append(loop.dates, loop.currentDate)]
    ELSE loop

\* 2^k passes in a row; once the loop has ended the rest change nothing
RECURSIVE columnSteps(_, _, _)
columnSteps(loop, z, k) ==
  IF k = 0 \/ loop.currentDate > endDate
    THEN columnStep(loop, z)
    ELSE columnSteps(columnSteps(loop, z, k - 1), z, k - 1)

\* the loop run to its end, in runs of 1, 2, 4, ... passes, which keeps the
\* depth of the evaluation logarithmic in the number of columns; the
\* evaluation ends only if the loop does
RECURSIVE generateDates(_, _, _)
generateDates(loop, z, k) ==
  IF loop.currentDate <= endDate
    THEN generateDates(columnSteps(loop, z, k), z, k + 1)
    ELSE loop.dates

\* the date columns of a render, by zoom level
dateColumns ==
  [z \in ZoomLevels |->
     generateDates([currentDate |-> startDate, dates |-> << >>], z, 0)]

totalWidth(z) == Len(dateColumns[z]) * pixelsPerDay(z)

(***************************************************************************)
(* Names are tuples of characters.                                         *)
(***************************************************************************)
Chars == {"a", "A", "b", "B"}

toLowerCase(s) ==
  [i \in DOMAIN s |-> IF s[i] = "A" THEN "a" ELSE IF s[i] = "B" THEN "b" ELSE s[i]]

\* String.prototype.includes
includes(s, sub) ==
  \E i \in 1 .. (Len(s) + 1) :
    /\ i + Len(sub) - 1 <= Len(s)
    /\ SubSeq(s, i, i + Len(sub) - 1) = sub

(***************************************************************************)
(* Timeline.filteredTasks: filter, then Array.prototype.sort (stable).     *)
(***************************************************************************)

\* matchesSearch comparing the raw strings
matchesSearch_caseSensitive(task, q) == includes(task.name, q)

matchesSearch(task, q) == includes(toLowerCase(task.name), toLowerCase(q))

matchesStatus(task, f) == f = "all" \/ task.status = f

FilterTasks(ts, q, f) ==
  SelectSeq(ts, LAMBDA t : matchesSearch(t, q) /\ matchesStatus(t, f))

priorityOrder(p) == IF p = "high" THEN 3 ELSE IF p = "medium" THEN 2 ELSE 1

letterRank(c) == IF c \in {"a", "A"} THEN 1 ELSE 2

caseRank(c) == IF c \in {"a", "b"} THEN 0 ELSE 1

\* lexicographic comparison of two tuples of ranks, from position i on
RECURSIVE lexCompare(_, _, _)
lexCompare(a, b, i) ==
  IF i > Len(a) /\ i > Len(b) THEN 0
  ELSE IF i > Len(a) THEN 0 - 1
  ELSE IF i > Len(b) THEN 1
  ELSE IF a[i] < b[i] THEN 0 - 1
  ELSE IF a[i] > b[i] THEN 1
  ELSE lexCompare(a, b, i + 1)

\* String.prototype.localeCompare: letters first, case breaks ties
localeCompare(a, b) ==
  LET p == lexCompare([i \in DOMAIN a |-> letterRank(a[i])],
                      [i \in DOMAIN b |-> letterRank(b[i])], 1)
  IN  IF p # 0 THEN p
      ELSE lexCompare([i \in DOMAIN a |-> caseRank(a[i])],
                      [i \in DOMAIN b |-> caseRank(b[i])], 1)

\* compareTasks with the priority ranks subtracted the other way round
compareTasks_priorityAscending(a, b, key) ==
  IF key = "startDate" THEN a.startDate - b.startDate
  ELSE IF key = "endDate" THEN a.endDate - b.endDate
  ELSE IF key = "name" THEN localeCompare(a.name, b.name)
  ELSE IF key = "priority" THEN priorityOrder(a.priority) - priorityOrder(b.priority)
  ELSE 0

compareTasks(a, b, key) ==
  IF key = "startDate" THEN a.startDate - b.startDate
  ELSE IF key = "endDate" THEN a.endDate - b.endDate
  ELSE IF key = "name" THEN localeCompare(a.name, b.name)
  ELSE IF key = "priority" THEN priorityOrder(b.priority) - priorityOrder(a.priority)
  ELSE 0

\* insertSorted placing t before the elements it ties with
RECURSIVE insertSorted_beforeEquals(_, _, _)
insertSorted_beforeEquals(sorted, t, key) ==
  IF sorted = << >> THEN <<t>>
  ELSE IF compareTasks(sorted[Len(sorted)], t, key) < 0 THEN Append(sorted, t)
  ELSE Append(insertSorted_beforeEquals(SubSeq(sorted, 1, Len(sorted) - 1), t, key),
              sorted[Len(sorted)])

\* position after the last element that does not sort after t
RECURSIVE insertSorted(_, _, _)
insertSorted(sorted, t, key) ==
  IF sorted = << >> THEN <<t>>
  ELSE IF compareTasks(sorted[Len(sorted)], t, key) <= 0 THEN Append(sorted, t)
  ELSE Append(insertSorted(SubSeq(sorted, 1, Len(sorted) - 1), t, key),
              sorted[Len(sorted)])

RECURSIVE sortTasks(_, _)
sortTasks(ts, key) ==
  IF ts = << >> THEN << >>
  ELSE insertSorted(sortTasks(SubSeq(ts, 1, Len(ts) - 1), key), ts[Len(ts)], key)

filteredTasksOf(ts, q, f, key) == sortTasks(FilterTasks(ts, q, f), key)

filteredTasks == filteredTasksOf(tasks, searchQuery, statusFilter, sortBy)

(***************************************************************************)
(* TaskBar: geometry of one bar.                                           *)
(***************************************************************************)
taskStartPos(task, z) == differenceInDays(task.startDate, startDate) * pixelsPerDay(z)

taskEndPos(task, z) == differenceInDays(task.endDate, startDate) * pixelsPerDay(z)

taskWidth(task, z) ==
  MathMax(pixelsPerDay(z), taskEndPos(task, z) - taskStartPos(task, z) + pixelsPerDay(z))

minWidth(z) == pixelsPerDay(z)

\* a bar drawn only for a task that lies wholly inside the window
isRendered_whollyInside(task) == task.startDate >= startDate /\ task.endDate <= endDate

\* the early return of TaskBar: no bar for a task outside the window
isRendered(task) == ~(task.endDate < startDate \/ task.startDate > endDate)

\* style.left and style.width of the bar
barLeft(task, z) == MathMax(0, taskStartPos(task, z))

barWidth(task, z) == MathMax(minWidth(z), taskWidth(task, z))

(***************************************************************************)
(* TaskBar: component state (useState) of the bar of each displayed task.  *)
(***************************************************************************)
initialBar(task) ==
  [isDragging |-> FALSE,
   dragType |-> null,
   dragStart |-> [x |-> 0, taskStart |-> task.startDate, taskEnd |-> task.endDate],
   dependencyPreview |-> null]

taskIds(ts) == {ts[i].id : i \in DOMAIN ts}

taskById(ts, id) == ts[CHOOSE i \in DOMAIN ts : ts[i].id = id]

\* bars keyed by row index: the state of the bar of a row stays with the
\* row when the list is sorted anew
mountBars_keyedByIndex(old, ft) ==
  [id \in taskIds(ft) |->
     LET row == CHOOSE i \in DOMAIN ft : ft[i].id = id
     IN  IF row \in DOMAIN filteredTasks /\ filteredTasks[row].id \in DOMAIN old
           THEN old[filteredTasks[row].id]
           ELSE initialBar(taskById(ft, id))]

\* TimelineGrid renders one TaskBar per displayed task, keyed by task.id:
\* a bar keeps its state while its task is displayed and is mounted afresh
\* otherwise
mountBars(old, ft) ==
  [id \in taskIds(ft) |->
     IF id \in DOMAIN old THEN old[id] ELSE initialBar(taskById(ft, id))]

\* pointer positions of the model: one week-zoom column apart, which is a
\* day and a half at month zoom and half a day at day zoom
PointerXs == {0, pixelsPerDay("week")}

(***************************************************************************)
(* TaskBar.handleMouseMove for one bar.                                    *)
(***************************************************************************)
daysDeltaOf(bar, x, z) == MathRound(x - bar.dragStart.x, pixelsPerDay(z))


\* newStartDate with the resize clamp landing on the end date itself
newStartDate_clampToEnd(bar, daysDelta) ==
  IF bar.dragType = "move" THEN addDays(bar.dragStart.taskStart, daysDelta)
  ELSE IF bar.dragType = "resize-start"
    THEN IF addDays(bar.dragStart.taskStart, daysDelta) >= bar.dragStart.taskEnd
           THEN bar.dragStart.taskEnd
           ELSE addDays(bar.dragStart.taskStart, daysDelta)
  ELSE bar.dragStart.taskStart

\* newStartDate with a moved start held at the window start
newStartDate_heldInWindow(bar, daysDelta) ==
  IF bar.dragType = "move"
    THEN MathMax(startDate, addDays(bar.dragStart.taskStart, daysDelta))
  ELSE IF bar.dragType = "resize-start"
    THEN IF addDays(bar.dragStart.taskStart, daysDelta) >= bar.dragStart.taskEnd
           THEN addDays(bar.dragStart.taskEnd, 0 - 1)
           ELSE addDays(bar.dragStart.taskStart, daysDelta)
  ELSE bar.dragStart.taskStart

newStartDate(bar, daysDelta) ==
  IF bar.dragType = "move" THEN addDays(bar.dragStart.taskStart, daysDelta)
  ELSE IF bar.dragType = "resize-start"
    THEN IF addDays(bar.dragStart.taskStart, daysDelta) >= bar.dragStart.taskEnd
           THEN addDays(bar.dragStart.taskEnd, 0 - 1)
           ELSE addDays(bar.dragStart.taskStart, daysDelta)
  ELSE bar.dragStart.taskStart


\* newEndDate with no clamp on a resize of the end
newEndDate_unclamped(bar, daysDelta) ==
  IF bar.dragType \in {"move", "resize-end"}
    THEN addDays(bar.dragStart.taskEnd, daysDelta)
  ELSE bar.dragStart.taskEnd

\* newEndDate that lets the end follow a resize of the start
newEndDate_followsStart(bar, daysDelta) ==
  IF bar.dragType \in {"move", "resize-start"}
    THEN addDays(bar.dragStart.taskEnd, daysDelta)
  ELSE IF bar.dragType = "resize-end"
    THEN IF addDays(bar.dragStart.taskEnd, daysDelta) <= bar.dragStart.taskStart
           THEN addDays(bar.dragStart.taskStart, 1)
           ELSE addDays(bar.dragStart.taskEnd, daysDelta)
  ELSE bar.dragStart.taskEnd

\* newEndDate with the resize clamp comparing strictly
newEndDate_strictClamp(bar, daysDelta) ==
  IF bar.dragType = "move" THEN addDays(bar.dragStart.taskEnd, daysDelta)
  ELSE IF bar.dragType = "resize-end"
    THEN IF addDays(bar.dragStart.taskEnd, daysDelta) < bar.dragStart.taskStart
           THEN addDays(bar.dragStart.taskStart, 1)
           ELSE addDays(bar.dragStart.taskEnd, daysDelta)
  ELSE bar.dragStart.taskEnd

newEndDate(bar, daysDelta) ==
  IF bar.dragType = "move" THEN addDays(bar.dragStart.taskEnd, daysDelta)
  ELSE IF bar.dragType = "resize-end"
    THEN IF addDays(bar.dragStart.taskEnd, daysDelta) <= bar.dragStart.taskStart
           THEN addDays(bar.dragStart.taskStart, 1)
           ELSE addDays(bar.dragStart.taskEnd, daysDelta)
  ELSE bar.dragStart.taskEnd

\* `newStartDate !== task.startDate || newEndDate !== task.endDate` compares
\* Date objects by identity: a date returned by addDays is a new object and
\* differs from every stored one; the other date is the object held in
\* dragStart
datesDiffer(bar, task, ns, ne) ==
  \/ bar.dragType \in {"move", "resize-start"}
  \/ bar.dragType \in {"move", "resize-end"}
  \/ ns # task.startDate
  \/ ne # task.endDate

noCall == [fn |-> "none"]

\* a bar that keeps its change to itself until the release
mouseMoveCall_deferred(bar, task, x, z) == noCall

\* a bar that shifts the dates the task has now instead of the dates
\* captured at pointer-down
mouseMoveCall_fromCurrentDates(bar, task, x, z) ==
  IF ~bar.isDragging \/ bar.dragType = null \/ bar.dragType = "dependency"
    THEN noCall
    ELSE LET dd == daysDeltaOf(bar, x, z)
             now == [bar EXCEPT !.dragStart.taskStart = task.startDate,
                                !.dragStart.taskEnd = task.endDate]
         IN  [fn |-> "onTaskUpdate", by |-> task.id,
              task |-> [task EXCEPT !.startDate = newStartDate(now, dd),
                                    !.endDate = newEndDate(now, dd)]]

\* the onTaskUpdate call the bar of `task` makes on a mousemove at x, if any
mouseMoveCall(bar, task, x, z) ==
  IF ~bar.isDragging \/ bar.dragType = null \/ bar.dragType = "dependency"
    THEN noCall
    ELSE LET dd == daysDeltaOf(bar, x, z)
             ns == newStartDate(bar, dd)
             ne == newEndDate(bar, dd)
         IN  IF datesDiffer(bar, task, ns, ne)
               THEN [fn |-> "onTaskUpdate", by |-> task.id,
                     task |-> [task EXCEPT !.startDate = ns, !.endDate = ne]]
               ELSE noCall

mouseMoveBar(bar, x) ==
  IF bar.isDragging /\ bar.dragType = "dependency"
    THEN [bar EXCEPT !.dependencyPreview = x]
    ELSE bar

(***************************************************************************)
(* TaskBar.handleMouseUp for one bar: hit test of the release point.       *)
(***************************************************************************)
\* document.elementsFromPoint: the elements under the pointer, topmost
\* first; each with its own data-task-id and that of closest('[data-task-id]')
elementsFromPoint(over) ==
  IF over = null
    THEN <<[attr |-> null, closest |-> null]>>
    ELSE <<[attr |-> null, closest |-> over],
           [attr |-> over, closest |-> over],
           [attr |-> null, closest |-> null]>>

RECURSIVE hitTestA(_, _, _)
hitTestA(elements, i, taskId) ==
  IF i > Len(elements) THEN null
  ELSE IF elements[i].attr # null /\ elements[i].attr # taskId THEN elements[i].attr
  ELSE IF elements[i].closest # null /\ elements[i].closest # taskId
    THEN elements[i].closest
  ELSE hitTestA(elements, i + 1, taskId)

RECURSIVE firstTaskElement(_, _)
firstTaskElement(elements, i) ==
  IF i > Len(elements) THEN null
  ELSE IF elements[i].closest # null THEN elements[i].closest
  ELSE firstTaskElement(elements, i + 1)

hitTestG(elements, taskId) ==
  LET taskElement == firstTaskElement(elements, 1)
  IN  IF taskElement # null /\ taskElement # taskId THEN taskElement ELSE null


\* hitTest that accepts the origin's own bar
hitTest_acceptsOrigin(v, elements, taskId) == firstTaskElement(elements, 1)

hitTest(v, elements, taskId) ==
  IF v = "G" THEN hitTestG(elements, taskId) ELSE hitTestA(elements, 1, taskId)


\* mouseUpCall with the two endpoints exchanged
mouseUpCall_swapped(v, bar, task, over) ==
  IF bar.isDragging /\ bar.dragType = "dependency"
       /\ hitTest(v, elementsFromPoint(over), task.id) # null
    THEN [fn |-> "onDependencyCreate", by |-> task.id,
          fromTaskId |-> hitTest(v, elementsFromPoint(over), task.id),
          toTaskId |-> task.id]
    ELSE noCall

\* the onDependencyCreate call the bar of `task` makes on mouseup, if any
mouseUpCall(v, bar, task, over) ==
  IF bar.isDragging /\ bar.dragType = "dependency"
       /\ hitTest(v, elementsFromPoint(over), task.id) # null
    THEN [fn |-> "onDependencyCreate", by |-> task.id, fromTaskId |-> task.id,
          toTaskId |-> hitTest(v, elementsFromPoint(over), task.id)]
    ELSE noCall

\* mouseUpBar leaving the drag type in place
mouseUpBar_keepsDragType(bar) ==
  IF bar.isDragging
    THEN [bar EXCEPT !.isDragging = FALSE, !.dependencyPreview = null]
    ELSE bar

mouseUpBar(bar) ==
  IF bar.isDragging
    THEN [bar EXCEPT !.isDragging = FALSE, !.dragType = null,
                     !.dependencyPreview = null]
    ELSE bar

(***************************************************************************)
(* Timeline.handleTaskUpdate and TimelineGrid.handleDependencyCreate.      *)
(***************************************************************************)
\* handleTaskUpdate that appends a task whose id is not in the collection
handleTaskUpdate_upsert(prev, updatedTask) ==
  IF \E i \in DOMAIN prev : prev[i].id = updatedTask.id
    THEN [i \in DOMAIN prev |-> IF prev[i].id = updatedTask.id THEN updatedTask ELSE prev[i]]
    ELSE Append(prev, updatedTask)

handleTaskUpdate(prev, updatedTask) ==
  [i \in DOMAIN prev |-> IF prev[i].id = updatedTask.id THEN updatedTask ELSE prev[i]]

newDependency(v, fromTaskId, toTaskId) ==
  [id |-> IF v = "G" THEN <<fromTaskId, "-", toTaskId>>
                     ELSE <<fromTaskId, "-to-", toTaskId>>,
   fromTaskId |-> fromTaskId,
   toTaskId |-> toTaskId]

\* `rendered` is the store the handler closed over (the duplicate check reads
\* it), `prev` the store the functional setState update receives
handleDependencyCreate(v, rendered, prev, fromTaskId, toTaskId) ==
  IF v # "G" /\ \E i \in DOMAIN rendered :
                   /\ rendered[i].fromTaskId = fromTaskId
                   /\ rendered[i].toTaskId = toTaskId
    THEN prev
    ELSE Append(prev, newDependency(v, fromTaskId, toTaskId))

(***************************************************************************)
(* TimelineGrid: the arrow drawn for each edge of the store.               *)
(***************************************************************************)
\* find's `undefined`, and the outcomes of rendering one edge other than a
\* drawn element: nothing (the map callback returns null), or the TypeError
\* of reading a property of undefined
undefined == [found |-> FALSE]

nothing == [kind |-> "null"]

TypeError == [kind |-> "TypeError"]

\* Array.prototype.findIndex / find: the first match, or -1 / undefined
findIndex(ts, id) ==
  IF \E i \in DOMAIN ts : ts[i].id = id
    THEN CHOOSE i \in DOMAIN ts : ts[i].id = id /\ \A j \in 1 .. (i - 1) : ts[j].id # id
    ELSE 0 - 1

find(ts, id) ==
  IF findIndex(ts, id) = 0 - 1
    THEN undefined
    ELSE [found |-> TRUE, task |-> ts[findIndex(ts, id)]]

\* the x of the arrow's tail (right edge of the source bar) and of its head
arrowStartX(v, fromTask, z) ==
  IF v = "A"
    THEN differenceInDays(fromTask.startDate, startDate) * pixelsPerDay(z)
           + MathMax(pixelsPerDay(z),
                     differenceInDays(fromTask.endDate, fromTask.startDate) * pixelsPerDay(z)
                       + pixelsPerDay(z))
    ELSE differenceInDays(fromTask.endDate, startDate) * pixelsPerDay(z) + pixelsPerDay(z)
           + (IF v = "B" THEN 5 ELSE 0)

arrowEndX(v, toTask, startX, z) ==
  LET toTaskStartPos == differenceInDays(toTask.startDate, startDate) * pixelsPerDay(z)
  IN  IF v = "B" THEN MathMax(toTaskStartPos - 5, startX + 30) ELSE toTaskStartPos

\* the routing code: it reads the dates of both endpoint tasks
routeArrow(v, ts, dependency, fromTask, toTask, z) ==
  IF ~fromTask.found \/ ~toTask.found
    THEN TypeError
    ELSE [kind |-> "path",
          key |-> dependency.id,
          startX |-> arrowStartX(v, fromTask.task, z),
          endX |-> arrowEndX(v, toTask.task, arrowStartX(v, fromTask.task, z), z),
          fromIndex |-> findIndex(ts, dependency.fromTaskId),
          toIndex |-> findIndex(ts, dependency.toTaskId)]

\* what dependencies.map draws for one edge, ts being the grid's tasks prop
renderDependency(v, ts, dependency, z) ==
  LET fromTask == find(ts, dependency.fromTaskId)
      toTask == find(ts, dependency.toTaskId)
  IN  IF ~fromTask.found \/ ~toTask.found
        THEN IF v = "B"
               THEN [kind |-> "text", key |-> dependency.id,
                     text |-> <<"ERROR: ", dependency.id, " - Missing tasks">>]
               ELSE nothing
        ELSE routeArrow(v, ts, dependency, fromTask, toTask, z)

\* the routing of the first grid of part_000 for an edge whose endpoint
\* tasks were found: the points of pathData in order, and the centre of the
\* delete button.  fromIndex and toIndex count from 0.  Positions are
\* multiples of pixelsPerDay and the row centres are 48 apart, so the two
\* halvings are exact
arrowPath(fromTask, toTask, fromIndex, toIndex, z) ==
  LET fromTaskStartPos == differenceInDays(fromTask.startDate, startDate) * pixelsPerDay(z)
      fromTaskEndPos ==
        fromTaskStartPos
          + MathMax(pixelsPerDay(z),
                    differenceInDays(fromTask.endDate, fromTask.startDate) * pixelsPerDay(z)
                      + pixelsPerDay(z))
      toTaskStartPos == differenceInDays(toTask.startDate, startDate) * pixelsPerDay(z)
      fromY == 80 + fromIndex * 48 + 8 + (32 \div 2)
      toY == 80 + toIndex * 48 + 8 + (32 \div 2)
      startX == fromTaskEndPos
      targetX == toTaskStartPos
      hasDirectSpace == targetX > startX /\ (targetX - startX) >= 15
      cornerX == startX + (targetX - startX) \div 2
      extendToX == startX + 15
  IN  [pathData |->
         IF hasDirectSpace
           THEN IF (IF fromY >= toY THEN fromY - toY ELSE toY - fromY) <= 5
                  THEN << <<startX, fromY>>, <<targetX, toY>> >>
                  ELSE << <<startX, fromY>>, <<cornerX, fromY>>,
                          <<cornerX, toY>>, <<targetX, toY>> >>
           ELSE << <<startX, fromY>>, <<extendToX, fromY>>,
                   <<extendToX, toY>>, <<targetX, toY>> >>,
       midX |-> IF hasDirectSpace THEN startX + (targetX - startX) \div 2
                                  ELSE startX + 15,
       midY |-> (fromY + toY) \div 2]

RECURSIVE applyCalls(_, _, _, _, _)
applyCalls(v, cs, i, ts, deps) ==
  IF i > Len(cs) THEN [tasks |-> ts, dependencies |-> deps]
  ELSE IF cs[i].fn = "onTaskUpdate"
    THEN applyCalls(v, cs, i + 1, handleTaskUpdate(ts, cs[i].task), deps)
  ELSE IF cs[i].fn = "onDependencyCreate"
    THEN applyCalls(v, cs, i + 1, ts,
           handleDependencyCreate(v, dependencies, deps, cs[i].fromTaskId, cs[i].toTaskId))
  ELSE applyCalls(v, cs, i + 1, ts, deps)

isCall(c) == c.fn # "none"

(***************************************************************************)
(* TaskDrawer and the two pieces of Timeline state that drive it           *)
(* (selectedTask, isDrawerOpen).  An optional value is a tuple of no or    *)
(* one element.                                                            *)
(***************************************************************************)
\* the form of a new task when `new Date()` reads n
defaultForm(n) ==
  [name |-> << >>, status |-> "todo", priority |-> "medium",
   startDate |-> <<n>>, endDate |-> <<addDays(n, 7)>>]

\* setFormData({ ...task })
formOf(task) ==
  [name |-> task.name, status |-> task.status, priority |-> task.priority,
   startDate |-> <<task.startDate>>, endDate |-> <<task.endDate>>]

\* the drawer while it is closed.  The effect on [task, isOpen] writes the
\* form and clears the errors on every open and every close, so what the
\* form holds while the sheet is closed is never read; it is kept blank
closedDrawer ==
  [isOpen |-> FALSE, task |-> << >>,
   formData |-> [name |-> << >>, status |-> "todo", priority |-> "medium",
                 startDate |-> << >>, endDate |-> << >>],
   errors |-> {}]

(***************************************************************************)
(* Initial state: Timeline mounted with its sample tasks (two of them,     *)
(* with short durations, placed across the start of the visible window).   *)
(***************************************************************************)
sampleTasks ==
  << [id |-> "1", name |-> <<"A", "b">>, status |-> "completed", priority |-> "high",
      startDate |-> addDays(startDate, 0 - 1), endDate |-> addDays(startDate, 0)],
     [id |-> "2", name |-> <<"a", "B">>, status |-> "in-progress", priority |-> "medium",
      startDate |-> addDays(startDate, 0 - 2), endDate |-> addDays(startDate, 0)] >>

Init ==
  /\ variant \in Variants
  /\ tasks = sampleTasks
  /\ dependencies = << >>
  /\ zoomLevel = "week"
  /\ searchQuery = << >>
  /\ statusFilter = "all"
  /\ sortBy = "startDate"
  /\ bars = mountBars(<< >>, filteredTasksOf(sampleTasks, << >>, "all", "startDate"))
  /\ drawer = closedDrawer
  /\ lastEvent = [type |-> "mount", at |-> null, calls |-> << >>]

\* dates a gesture of the model may commit: within MaxShift days of the day
\* before the window start, or of today
DateInRange(d) ==
  \E c \in {addDays(startDate, 0 - 1), today} :
    /\ d >= addDays(c, 0 - MaxShift)
    /\ d <= addDays(c, MaxShift)

CallInRange(c) ==
  /\ c.task.startDate = taskById(tasks, c.task.id).startDate \/ DateInRange(c.task.startDate)
  /\ c.task.endDate = taskById(tasks, c.task.id).endDate \/ DateInRange(c.task.endDate)

displayed == filteredTasks

\* the bars whose mousemove/mouseup pair is registered on document: the
\* effect of a mounted bar adds the pair when isDragging is true, and its
\* cleanup (on a change of its dependencies, on unmount) removes the pair
listeners == {id \in DOMAIN bars : bars[id].isDragging}

anyDragging == listeners # {}

arrows ==
  [i \in DOMAIN dependencies |->
     renderDependency(variant, displayed, dependencies[i], zoomLevel)]

(***************************************************************************)
(* Pointer events.                                                         *)
(***************************************************************************)
\* TaskBar.handleMouseDown on the centre or on an edge handle of a bar
handleMouseDown(id, type, x) ==
  /\ id \in DOMAIN bars
  /\ isRendered(taskById(tasks, id))
  /\ bars' = [bars EXCEPT ![id] =
                [@ EXCEPT !.isDragging = TRUE,
                          !.dragType = type,
                          !.dragStart = [x |-> x,
                                         taskStart |-> taskById(tasks, id).startDate,
                                         taskEnd |-> taskById(tasks, id).endDate]]]
  /\ lastEvent' = [type |-> "mousedown", at |-> x, calls |-> << >>]
  /\ UNCHANGED <<drawer, variant, tasks, dependencies, zoomLevel, searchQuery, statusFilter, sortBy>>

\* TaskBar.handleDependencyMouseDown on the left or right connector dot
handleDependencyMouseDown(id, x) ==
  /\ id \in DOMAIN bars
  /\ isRendered(taskById(tasks, id))
  /\ bars' = [bars EXCEPT ![id] =
                [@ EXCEPT !.isDragging = TRUE,
                          !.dragType = "dependency",
                          !.dragStart = [x |-> x,
                                         taskStart |-> taskById(tasks, id).startDate,
                                         taskEnd |-> taskById(tasks, id).endDate]]]
  /\ lastEvent' = [type |-> "mousedown", at |-> x, calls |-> << >>]
  /\ UNCHANGED <<drawer, variant, tasks, dependencies, zoomLevel, searchQuery, statusFilter, sortBy>>

\* a document mousemove: handleMouseMove of every bar whose listeners are
\* installed, then Timeline re-renders
MouseMove(x) ==
  /\ anyDragging
  /\ LET cs == SelectSeq([i \in DOMAIN displayed |->
                            mouseMoveCall(bars[displayed[i].id], displayed[i], x, zoomLevel)],
                         isCall)
         r == applyCalls(variant, cs, 1, tasks, dependencies)
     IN  /\ \A i \in DOMAIN cs : CallInRange(cs[i])
         /\ tasks' = r.tasks
         /\ lastEvent' = [type |-> "mousemove", at |-> x, calls |-> cs]
         /\ bars' = mountBars([id \in DOMAIN bars |-> mouseMoveBar(bars[id], x)],
                              filteredTasksOf(r.tasks, searchQuery, statusFilter, sortBy))
  /\ UNCHANGED <<drawer, variant, dependencies, zoomLevel, searchQuery, statusFilter, sortBy>>

\* what the release point can be over: nothing, or the bar of a displayed
\* task that is rendered
ReleaseTargets == {null} \cup {id \in DOMAIN bars : isRendered(taskById(tasks, id))}

\* a document mouseup: handleMouseUp of every bar whose listeners are
\* installed
MouseUp(over) ==
  /\ anyDragging
  /\ over \in ReleaseTargets
  /\ LET cs == SelectSeq([i \in DOMAIN displayed |->
                            mouseUpCall(variant, bars[displayed[i].id], displayed[i], over)],
                         isCall)
         r == applyCalls(variant, cs, 1, tasks, dependencies)
     IN  /\ Len(r.dependencies) <= MaxDeps
         /\ dependencies' = r.dependencies
         /\ lastEvent' = [type |-> "mouseup", at |-> over, calls |-> cs]
         /\ bars' = [id \in DOMAIN bars |-> mouseUpBar(bars[id])]
  /\ UNCHANGED <<drawer, variant, tasks, zoomLevel, searchQuery, statusFilter, sortBy>>

(***************************************************************************)
(* Timeline controls.                                                      *)
(***************************************************************************)
setZoomLevel(z) ==
  /\ z # zoomLevel
  /\ zoomLevel' = z
  /\ lastEvent' = [type |-> "zoom", at |-> z, calls |-> << >>]
  /\ UNCHANGED <<drawer, variant, tasks, dependencies, searchQuery, statusFilter, sortBy, bars>>

SearchTexts == {<< >>, <<"a">>, <<"B">>, <<"a", "b">>, <<"b", "a">>}

StatusFilters == {"all"} \cup Statuses

SortKeys == {"startDate", "endDate", "name", "priority"}

\* the search box: setSearchQuery, then Timeline re-renders
setSearchQuery(q) ==
  /\ q # searchQuery
  /\ searchQuery' = q
  /\ bars' = mountBars(bars, filteredTasksOf(tasks, q, statusFilter, sortBy))
  /\ lastEvent' = [type |-> "search", at |-> q, calls |-> << >>]
  /\ UNCHANGED <<drawer, variant, tasks, dependencies, zoomLevel, statusFilter, sortBy>>

setStatusFilter(f) ==
  /\ f # statusFilter
  /\ statusFilter' = f
  /\ bars' = mountBars(bars, filteredTasksOf(tasks, searchQuery, f, sortBy))
  /\ lastEvent' = [type |-> "statusFilter", at |-> f, calls |-> << >>]
  /\ UNCHANGED <<drawer, variant, tasks, dependencies, zoomLevel, searchQuery, sortBy>>

setSortBy(key) ==
  /\ key # sortBy
  /\ sortBy' = key
  /\ lastEvent' = [type |-> "sortBy", at |-> key, calls |-> << >>]
  /\ UNCHANGED <<drawer, variant, tasks, dependencies, zoomLevel, searchQuery, statusFilter, bars>>

\* the dates a drawer form can hold when `new Date()` read n: the defaults
\* n and seven days later, or a day picked in the calendar (local midnight)
PickedDates == {addDays(today, 1)}

FormStartDates(n) == {n} \cup PickedDates

FormEndDates(n) == {addDays(n, 7)} \cup PickedDates

FormNames == {<<"b">>, <<"b", "A">>}

DateNow == "1739700000000"

\* Timeline.handleTaskCreate with the data of a valid drawer form, when
\* Date.now().toString() gives `now`
handleTaskCreate(newTask, now) ==
  /\ Len(tasks) < MaxTasks
  /\ newTask.startDate < newTask.endDate
  /\ tasks' = Append(tasks, [id |-> now, name |-> newTask.name,
                             status |-> newTask.status, priority |-> newTask.priority,
                             startDate |-> newTask.startDate, endDate |-> newTask.endDate])
  /\ bars' = mountBars(bars, filteredTasksOf(tasks', searchQuery, statusFilter, sortBy))
  /\ lastEvent' = [type |-> "create", at |-> now, calls |-> << >>]
  /\ UNCHANGED <<drawer, variant, dependencies, zoomLevel, searchQuery, statusFilter, sortBy>>

\* Timeline.handleTaskUpdate as the onTaskUpdate of TaskPanel and TaskDrawer
onTaskUpdate(updatedTask) ==
  /\ tasks' = handleTaskUpdate(tasks, updatedTask)
  /\ bars' = mountBars(bars, filteredTasksOf(tasks', searchQuery, statusFilter, sortBy))
  /\ lastEvent' = [type |-> "update", at |-> updatedTask, calls |-> << >>]
  /\ UNCHANGED <<drawer, variant, dependencies, zoomLevel, searchQuery, statusFilter, sortBy>>

\* prev.filter(task => task.id === taskId)
removeTask_keepsMatching(prev, taskId) == SelectSeq(prev, LAMBDA t : t.id = taskId)

removeTask(prev, taskId) == SelectSeq(prev, LAMBDA t : t.id # taskId)

\* Timeline.handleTaskDelete
handleTaskDelete(taskId) ==
  /\ tasks' = removeTask(tasks, taskId)
  /\ bars' = mountBars(bars, filteredTasksOf(tasks', searchQuery, statusFilter, sortBy))
  /\ lastEvent' = [type |-> "delete", at |-> taskId, calls |-> << >>]
  /\ UNCHANGED <<drawer, variant, dependencies, zoomLevel, searchQuery, statusFilter, sortBy>>

\* setDependencies([])
removeDependency_clearsAll(prevDeps, dependencyId) == << >>

removeDependency(prevDeps, dependencyId) ==
  SelectSeq(prevDeps, LAMBDA dep : dep.id # dependencyId)

\* TimelineGrid.handleDependencyDelete; only the first grid of part_000 has it
handleDependencyDelete(dependencyId) ==
  /\ variant = "A"
  /\ dependencies' = removeDependency(dependencies, dependencyId)
  /\ lastEvent' = [type |-> "dependencyDelete", at |-> dependencyId, calls |-> << >>]
  /\ UNCHANGED <<drawer, variant, tasks, zoomLevel, searchQuery, statusFilter, sortBy, bars>>

\* a press of the pointer's button while no gesture is in progress
PointerDown ==
  /\ ~anyDragging
  /\ \E id \in taskIds(tasks), type \in DragTypes, x \in PointerXs :
       handleMouseDown(id, type, x)

ConnectorDown ==
  /\ ~anyDragging
  /\ \E id \in taskIds(tasks), x \in PointerXs : handleDependencyMouseDown(id, x)

PointerMove == \E x \in PointerXs : MouseMove(x)

PointerUp == \E over \in {null} \cup taskIds(tasks) : MouseUp(over)

ZoomChange == \E z \in ZoomLevels : setZoomLevel(z)

\* a save of the drawer's form for a new task, the clock having advanced
\* since the save before
DrawerCreate ==
  /\ DateNow \notin taskIds(tasks)
  /\ \E n \in NowTicks : \E s \in FormStartDates(n), e \in FormEndDates(n) :
       \E nm \in FormNames, st \in {"todo", "completed"} :
         handleTaskCreate([name |-> nm, status |-> st, priority |-> "medium",
                           startDate |-> s, endDate |-> e], DateNow)

SearchChange == \E q \in SearchTexts : setSearchQuery(q)

StatusFilterChange == \E f \in StatusFilters : setStatusFilter(f)

SortChange == \E key \in SortKeys : setSortBy(key)

\* what Date.now() can read at two saves: the same millisecond or another
ClockReadings == {DateNow, "1739700000001"}

\* a save of the drawer's form with dates picked in the calendar, at any
\* clock reading
TaskCreate ==
  \E now \in ClockReadings :
    handleTaskCreate([name |-> <<"b">>, status |-> "todo", priority |-> "medium",
                      startDate |-> today, endDate |-> addDays(today, 7)], now)

\* an id no task of the collection has
AbsentId == "absent"

\* a status picked in the panel for a task of the collection, or an update
\* for an id that is not in the collection
TaskUpdate ==
  \E st \in {"todo", "completed"} :
    \/ \E i \in DOMAIN tasks : onTaskUpdate([tasks[i] EXCEPT !.status = st])
    \/ onTaskUpdate([sampleTasks[1] EXCEPT !.id = AbsentId, !.status = st])

TaskDelete == \E taskId \in taskIds(tasks) \cup {AbsentId} : handleTaskDelete(taskId)

(***************************************************************************)
(* TaskDrawer: the form, validateForm, handleSave, handleDelete.           *)
(***************************************************************************)
\* String.prototype.trim over the characters of the model
RECURSIVE trimStart(_)
trimStart(s) == IF s # << >> /\ Head(s) = " " THEN trimStart(Tail(s)) ELSE s

RECURSIVE trimEnd(_)
trimEnd(s) ==
  IF s # << >> /\ s[Len(s)] = " " THEN trimEnd(SubSeq(s, 1, Len(s) - 1)) ELSE s

trim(s) == trimEnd(trimStart(s))

\* validateForm that lets an end date equal to the start date through
validateForm_allowsEqualDates(formData) ==
  (IF trim(formData.name) = << >> THEN {"name"} ELSE {})
  \cup (IF formData.startDate = << >> THEN {"startDate"} ELSE {})
  \cup (IF formData.endDate = << >> THEN {"endDate"} ELSE {})
  \cup (IF /\ formData.startDate # << >>
           /\ formData.endDate # << >>
           /\ formData.startDate[1] > formData.endDate[1]
          THEN {"endDate"} ELSE {})

\* TaskDrawer.validateForm: the keys of newErrors
validateForm(formData) ==
  (IF trim(formData.name) = << >> THEN {"name"} ELSE {})
  \cup (IF formData.startDate = << >> THEN {"startDate"} ELSE {})
  \cup (IF formData.endDate = << >> THEN {"endDate"} ELSE {})
  \cup (IF /\ formData.startDate # << >>
           /\ formData.endDate # << >>
           /\ formData.startDate[1] >= formData.endDate[1]
          THEN {"endDate"} ELSE {})

\* the taskData of handleSave, for a form that passed validateForm
taskData(formData) ==
  [name |-> formData.name, status |-> formData.status, priority |-> formData.priority,
   startDate |-> formData.startDate[1], endDate |-> formData.endDate[1]]

\* { ...task, ...taskData }
mergeTask(task, data) ==
  [task EXCEPT !.name = data.name, !.status = data.status, !.priority = data.priority,
               !.startDate = data.startDate, !.endDate = data.endDate]

\* Timeline.openTaskDrawer, then the drawer's effect on [task, isOpen], when
\* `new Date()` reads n; selected is no task (New Task) or one task
openTaskDrawer(selected, n) ==
  /\ ~drawer.isOpen
  /\ drawer' = [isOpen |-> TRUE, task |-> selected,
                formData |-> IF selected = << >> THEN defaultForm(n)
                                                ELSE formOf(selected[1]),
                errors |-> {}]
  /\ lastEvent' = [type |-> "open", at |-> selected, calls |-> << >>]
  /\ UNCHANGED <<variant, tasks, dependencies, zoomLevel, searchQuery, statusFilter, sortBy, bars>>

\* Timeline.closeTaskDrawer (Cancel, or the sheet's onOpenChange)
closeTaskDrawer ==
  /\ drawer.isOpen
  /\ drawer' = closedDrawer
  /\ lastEvent' = [type |-> "close", at |-> null, calls |-> << >>]
  /\ UNCHANGED <<variant, tasks, dependencies, zoomLevel, searchQuery, statusFilter, sortBy, bars>>

\* setFormData({ ...formData, [field]: value }) of an input of the form
setFormData(field, value) ==
  /\ drawer.isOpen
  /\ drawer.formData[field] # value
  /\ drawer' = [drawer EXCEPT !.formData[field] = value]
  /\ lastEvent' = [type |-> "form", at |-> field, calls |-> << >>]
  /\ UNCHANGED <<variant, tasks, dependencies, zoomLevel, searchQuery, statusFilter, sortBy, bars>>

\* TaskDrawer.handleSave with Timeline's handleTaskUpdate, handleTaskCreate
\* and closeTaskDrawer as its callbacks, when Date.now().toString() gives now
handleSave(now) ==
  /\ drawer.isOpen
  /\ LET newErrors == validateForm(drawer.formData)
     IN  IF newErrors # {}
           THEN /\ drawer' = [drawer EXCEPT !.errors = newErrors]
                /\ lastEvent' = [type |-> "save", at |-> drawer.task, calls |-> << >>]
                /\ UNCHANGED <<variant, tasks, dependencies, zoomLevel, searchQuery,
                               statusFilter, sortBy, bars>>
           ELSE LET data == taskData(drawer.formData)
                    call == IF drawer.task # << >>
                              THEN [fn |-> "onTaskUpdate", by |-> "drawer",
                                    task |-> mergeTask(drawer.task[1], data)]
                              ELSE [fn |-> "onTaskCreate", by |-> "drawer",
                                    task |-> data]
                IN  /\ drawer.task = << >> => Len(tasks) < MaxTasks
                    /\ tasks' = IF drawer.task # << >>
                                  THEN handleTaskUpdate(tasks, call.task)
                                  ELSE Append(tasks,
                                         [id |-> now, name |-> data.name,
                                          status |-> data.status,
                                          priority |-> data.priority,
                                          startDate |-> data.startDate,
                                          endDate |-> data.endDate])
                    /\ bars' = mountBars(bars, filteredTasksOf(tasks', searchQuery,
                                                               statusFilter, sortBy))
                    /\ drawer' = closedDrawer
                    /\ lastEvent' = [type |-> "save", at |-> drawer.task,
                                     calls |-> <<call, [fn |-> "onClose", by |-> "drawer"]>>]
                    /\ UNCHANGED <<variant, dependencies, zoomLevel, searchQuery,
                                   statusFilter, sortBy>>

\* TaskDrawer.handleDelete, the confirm() answered with OK
handleDelete ==
  /\ drawer.isOpen
  /\ drawer.task # << >>
  /\ tasks' = removeTask(tasks, drawer.task[1].id)
  /\ bars' = mountBars(bars, filteredTasksOf(tasks', searchQuery, statusFilter, sortBy))
  /\ drawer' = closedDrawer
  /\ lastEvent' = [type |-> "drawerDelete", at |-> drawer.task[1].id, calls |-> << >>]
  /\ UNCHANGED <<variant, dependencies, zoomLevel, searchQuery, statusFilter, sortBy>>

\* the New Task button, or a click on a row of the list
OpenDrawer ==
  /\ ~anyDragging
  /\ \E n \in NowTicks :
       \E selected \in {<< >>} \cup {<<filteredTasks[i]>> : i \in DOMAIN filteredTasks} :
         openTaskDrawer(selected, n)

CloseDrawer == closeTaskDrawer

\* what is typed into the name input: a blank, or a name
TypedNames == {<<" ">>, <<"b">>}

\* typing in the name input, or picking a day in one of the two calendars
FormChange ==
  \/ \E nm \in TypedNames : setFormData("name", nm)
  \/ \E d \in PickedDates : setFormData("startDate", <<d>>)
  \/ \E d \in PickedDates : setFormData("endDate", <<d>>)

\* the Save button, the clock having advanced since the save before; the
\* collection grows to at most one task more than the sample
Save ==
  /\ drawer.isOpen
  /\ drawer.task = << >> => Len(tasks) <= Len(sampleTasks)
  /\ \E now \in ClockReadings : now \notin taskIds(tasks) /\ handleSave(now)

\* the drawer's Delete button
DrawerDelete == handleDelete

Next ==
  \/ PointerDown
  \/ ConnectorDown
  \/ PointerMove
  \/ PointerUp
  \/ ZoomChange
  \/ DrawerCreate
  \/ OpenDrawer
  \/ FormChange
  \/ Save
  \/ CloseDrawer
  \/ DrawerDelete
  \/ TaskUpdate
  \/ TaskDelete
  \/ SearchChange
  \/ StatusFilterChange
  \/ SortChange

Spec == Init /\ [][Next]_vars

(***************************************************************************)
(* The same program under narrower user behaviour.                         *)
(***************************************************************************)
\* move and resize gestures, zoom changes
NextDrag ==
  \/ PointerDown
  \/ PointerMove
  \/ PointerUp
  \/ ZoomChange

\* handleMouseDown and the move/resize part of handleMouseMove are the same
\* text in both grids (part_000:53-63, 90-124; TimelineGrid.tsx:52-62,
\* 87-121); variant is read by the link code only, so one grid is taken
InitDrag == Init /\ variant = "A"

SpecDrag == InitDrag /\ [][NextDrag]_vars

\* dependency-link gestures
NextLink ==
  \/ ConnectorDown
  \/ PointerMove
  \/ PointerUp

SpecLink == Init /\ [][NextLink]_vars

\* the list and grid controls and the drawer's create
NextView ==
  \/ DrawerCreate
  \/ ZoomChange
  \/ SearchChange
  \/ StatusFilterChange
  \/ SortChange

SpecView == Init /\ [][NextView]_vars

\* the operations on the task collection; Timeline mounts the grid of
\* src/components/TimelineGrid.tsx
NextTasks ==
  \/ TaskCreate
  \/ TaskUpdate
  \/ TaskDelete

InitTasks == Init /\ variant = "G"

SpecTasks == InitTasks /\ [][NextTasks]_vars

\* the drawer: open, fill in, save, cancel
NextDrawer ==
  \/ OpenDrawer
  \/ FormChange
  \/ Save
  \/ CloseDrawer

SpecDrawer == InitTasks /\ [][NextDrawer]_vars

\* an edge id the store does not hold
AbsentEdgeId == <<AbsentId, "-to-", AbsentId>>

\* a click on an arrow's delete button, or a delete of an id not in the store
DependencyDelete ==
  /\ ~anyDragging
  /\ \E dependencyId \in {dependencies[i].id : i \in DOMAIN dependencies} \cup {AbsentEdgeId} :
       handleDependencyDelete(dependencyId)

\* dependency-link gestures and deletes of edges, in the grid that has both
NextDeps ==
  \/ ConnectorDown
  \/ PointerMove
  \/ PointerUp
  \/ DependencyDelete

InitDeps == Init /\ variant = "A"

SpecDeps == InitDeps /\ [][NextDeps]_vars

\* a press on the centre of a bar while no gesture is in progress
MoveDown ==
  /\ ~anyDragging
  /\ \E id \in taskIds(tasks), x \in PointerXs : handleMouseDown(id, "move", x)

\* move and link gestures, and deletes of tasks, which unmount their bars
NextListeners ==
  \/ MoveDown
  \/ ConnectorDown
  \/ PointerMove
  \/ PointerUp
  \/ TaskDelete

SpecListeners == InitDrag /\ [][NextListeners]_vars

\* a save of the drawer's form for a new task that starts on the last day of
\* the window, at its midnight or later in the day, or on the day after
WindowEndCreate ==
  /\ DateNow \notin taskIds(tasks)
  /\ \E s \in {endDate, endDate + (TicksPerDay - 1), addDays(endDate, 1)} :
       handleTaskCreate([name |-> <<"b">>, status |-> "todo", priority |-> "medium",
                         startDate |-> s, endDate |-> addDays(s, 1)], DateNow)

\* move gestures, and a task created at the end of the window
NextWindow ==
  \/ MoveDown
  \/ PointerMove
  \/ PointerUp
  \/ WindowEndCreate

SpecWindow == InitDrag /\ [][NextWindow]_vars

\* dependency-link gestures in the first grid of part_000, and a task
\* created at the end of the window
NextRoute ==
  \/ ConnectorDown
  \/ PointerMove
  \/ PointerUp
  \/ WindowEndCreate

SpecRoute == InitDeps /\ [][NextRoute]_vars

\* the status menu of a row of the list: handleStatusChange
StatusEdit ==
  \E i \in DOMAIN filteredTasks :
    /\ filteredTasks[i].status # "completed"
    /\ onTaskUpdate([filteredTasks[i] EXCEPT !.status = "completed"])

\* a name typed into the form, or a day picked in one of its calendars
FormFill ==
  \/ setFormData("name", <<"b">>)
  \/ \E d \in PickedDates : setFormData("startDate", <<d>>)
  \/ \E d \in PickedDates : setFormData("endDate", <<d>>)

\* everything the widget offers that writes a task: move and resize
\* gestures, the drawer's create, edit and delete, and the list's status
\* menu and delete.  The drawer is a modal sheet: while it is open the
\* pointer reaches nothing behind it; the list is used between gestures,
\* and a task is added only to the empty collection, so the collection has
\* one task at a time
NextDates ==
  \/ ~drawer.isOpen /\ PointerDown
  \/ ~drawer.isOpen /\ PointerMove
  \/ ~drawer.isOpen /\ PointerUp
  \/ ~drawer.isOpen /\ ~anyDragging /\ StatusEdit
  \/ ~drawer.isOpen /\ ~anyDragging /\ TaskDelete
  \/ OpenDrawer
  \/ FormFill
  \/ (drawer.task = << >> => tasks = << >>) /\ Save
  \/ CloseDrawer
  \/ DrawerDelete

\* the first grid of part_000 after the first sample task was deleted from
\* the list
InitDates ==
  /\ variant = "A"
  /\ tasks = removeTask(sampleTasks, sampleTasks[1].id)
  /\ dependencies = << >>
  /\ zoomLevel = "week"
  /\ searchQuery = << >>
  /\ statusFilter = "all"
  /\ sortBy = "startDate"
  /\ bars = mountBars(<< >>, filteredTasksOf(tasks, << >>, "all", "startDate"))
  /\ drawer = closedDrawer
  /\ lastEvent = [type |-> "delete", at |-> sampleTasks[1].id, calls |-> << >>]

SpecDates == InitDates /\ [][NextDates]_vars

\* dependency-link gestures and deletes of tasks
NextStale ==
  \/ ConnectorDown
  \/ PointerMove
  \/ PointerUp
  \/ TaskDelete

SpecStale == Init /\ [][NextStale]_vars

\* a press of a mouse button on the centre or on an edge handle of a bar:
\* React delivers onMouseDown for every button, handleMouseDown reads
\* neither e.button nor the state of another bar, so the press is taken
\* whether or not a gesture is in progress on some bar
ButtonDown ==
  \E id \in taskIds(tasks), type \in DragTypes, x \in PointerXs :
    handleMouseDown(id, type, x)

\* presses, moves and releases of the pointer in any order
NextPointers ==
  \/ ButtonDown
  \/ PointerMove
  \/ PointerUp

SpecPointers == InitDrag /\ [][NextPointers]_vars

\* dependency-link gestures, and the grid's creation entry point invoked
\* with arbitrary endpoints, as a caller of onDependencyCreate may do
onDependencyCreate(fromTaskId, toTaskId) ==
  /\ ~anyDragging
  /\ LET r == handleDependencyCreate(variant, dependencies, dependencies, fromTaskId, toTaskId)
     IN  /\ Len(r) <= MaxDeps
         /\ dependencies' = r
  /\ lastEvent' = [type |-> "request", at |-> <<fromTaskId, toTaskId>>, calls |-> << >>]
  /\ UNCHANGED <<drawer, variant, tasks, zoomLevel, searchQuery, statusFilter, sortBy, bars>>

CreateRequest ==
  \E fromTaskId \in taskIds(tasks), toTaskId \in taskIds(tasks) :
    onDependencyCreate(fromTaskId, toTaskId)

NextRequest ==
  \/ ConnectorDown
  \/ PointerMove
  \/ PointerUp
  \/ CreateRequest

SpecRequest == Init /\ [][NextRequest]_vars

(***************************************************************************)
(* Properties.                                                             *)
(***************************************************************************)
edgeCount(deps, fromTaskId, toTaskId) ==
  Cardinality({i \in DOMAIN deps :
                 deps[i].fromTaskId = fromTaskId /\ deps[i].toTaskId = toTaskId})

createCallsBy(cs, id) ==
  SelectSeq(cs, LAMBDA c : c.fn = "onDependencyCreate" /\ c.by = id)

updateCallsBy(cs, id) ==
  SelectSeq(cs, LAMBDA c : c.fn = "onTaskUpdate" /\ c.by = id)

isIdle(bar) ==
  ~bar.isDragging /\ bar.dragType = null /\ bar.dependencyPreview = null

linking(id) ==
  id \in DOMAIN bars /\ bars[id].isDragging /\ bars[id].dragType = "dependency"

\* C1: the dependency store never holds two edges with the same ordered
\* (fromTaskId, toTaskId) pair
C1_AtMostOneEdgePerPair ==
  \A i \in DOMAIN dependencies, j \in DOMAIN dependencies :
    (/\ dependencies[i].fromTaskId = dependencies[j].fromTaskId
     /\ dependencies[i].toTaskId = dependencies[j].toTaskId) => i = j

C3_LinkCreatesOneEdgeOriginToTarget ==
  [][\A id \in taskIds(tasks), over \in taskIds(tasks) :
       (linking(id) /\ over # id /\ MouseUp(over)) =>
          /\ createCallsBy(lastEvent'.calls, id) =
               <<[fn |-> "onDependencyCreate", by |-> id,
                  fromTaskId |-> id, toTaskId |-> over]>>
          /\ edgeCount(dependencies, id, over) = 0 =>
               /\ edgeCount(dependencies', id, over) = 1
               /\ Len(dependencies') = Len(dependencies) + 1
               /\ dependencies'[Len(dependencies')].fromTaskId = id
               /\ dependencies'[Len(dependencies')].toTaskId = over
               /\ SubSeq(dependencies', 1, Len(dependencies)) = dependencies]_vars

\* a link gesture 2 -> 1 was just released on target and the store holds
\* exactly that one edge
C3_Witness ==
  /\ lastEvent.type = "mouseup"
  /\ lastEvent.at = "1"
  /\ lastEvent.calls = <<[fn |-> "onDependencyCreate", by |-> "2",
                          fromTaskId |-> "2", toTaskId |-> "1"]>>
  /\ Len(dependencies) = 1
  /\ dependencies[1].fromTaskId = "2"
  /\ dependencies[1].toTaskId = "1"

\* C4: from pointer-down on a connector dot to pointer-up, the gesture
\* invokes no onTaskUpdate and the task collection does not change; released
\* over no bar or over the origin's own bar it requests no creation, leaves
\* the store unchanged and returns the bar to idle
C4_LinkGestureHasNoSideEffect ==
  [][/\ ConnectorDown => tasks' = tasks /\ dependencies' = dependencies
     /\ \A id \in taskIds(tasks) :
          linking(id) =>
            /\ tasks' = tasks
            /\ updateCallsBy(lastEvent'.calls, id) = << >>
            /\ lastEvent'.type = "mousemove" =>
                 /\ dependencies' = dependencies
                 /\ lastEvent'.calls = << >>
            /\ \A over \in {null, id} :
                 MouseUp(over) =>
                   /\ lastEvent'.calls = << >>
                   /\ dependencies' = dependencies
                   /\ isIdle(bars'[id])]_vars

\* a link gesture that moved the pointer was just released over the
\* origin's own bar: nothing was created and the bar is idle again
C4_Witness ==
  /\ lastEvent.type = "mouseup"
  /\ lastEvent.at = "1"
  /\ lastEvent.calls = << >>
  /\ bars["1"].dragStart.x # 0
  /\ isIdle(bars["1"])
  /\ dependencies = << >>
  /\ tasks = sampleTasks

gesture(id, type) ==
  id \in DOMAIN bars /\ bars[id].isDragging /\ bars[id].dragType = type

\* the daysDelta of the pointer move delivered last, for the bar of id
lastDaysDelta(id) ==
  MathRound(lastEvent.at - bars[id].dragStart.x, pixelsPerDay(zoomLevel))

\* C5: after every pointer move of a resize-start gesture the start date is
\* anchor start + daysDelta, unless that is on or after the task's end date,
\* and then it is exactly one day before the end date
C5_ResizeStartClampsToDayBeforeEnd ==
  \A id \in DOMAIN bars :
    (lastEvent.type = "mousemove" /\ gesture(id, "resize-start")) =>
       LET t == taskById(tasks, id)
           candidate == addDays(bars[id].dragStart.taskStart, lastDaysDelta(id))
       IN  t.startDate = IF candidate >= t.endDate
                           THEN addDays(t.endDate, 0 - 1)
                           ELSE candidate

\* a resize-start of a two-day task dragged two days right: the start landed
\* one day before the end
C5_Witness ==
  \E id \in DOMAIN bars :
    /\ lastEvent.type = "mousemove"
    /\ gesture(id, "resize-start")
    /\ lastDaysDelta(id) = 2
    /\ bars[id].dragStart.taskEnd = addDays(bars[id].dragStart.taskStart, 2)
    /\ taskById(tasks, id).startDate = addDays(taskById(tasks, id).endDate, 0 - 1)

\* C6: after every pointer move of a resize-end gesture the end date is
\* anchor end + daysDelta, unless that is on or before the task's start
\* date, and then it is exactly one day after the start date
C6_ResizeEndClampsToDayAfterStart ==
  \A id \in DOMAIN bars :
    (lastEvent.type = "mousemove" /\ gesture(id, "resize-end")) =>
       LET t == taskById(tasks, id)
           candidate == addDays(bars[id].dragStart.taskEnd, lastDaysDelta(id))
       IN  t.endDate = IF candidate <= t.startDate
                         THEN addDays(t.startDate, 1)
                         ELSE candidate

\* a resize-end of a one-day task dragged one day left: the end stayed one
\* day after the start
C6_Witness ==
  \E id \in DOMAIN bars :
    /\ lastEvent.type = "mousemove"
    /\ gesture(id, "resize-end")
    /\ lastDaysDelta(id) = 0 - 1
    /\ bars[id].dragStart.taskEnd = addDays(bars[id].dragStart.taskStart, 1)
    /\ taskById(tasks, id).endDate = addDays(taskById(tasks, id).startDate, 1)

\* C7: after every pointer move of a move gesture both dates are the anchor
\* dates shifted by daysDelta, and in every state of the gesture the task's
\* duration is the duration it had at pointer-down
C7_MoveShiftsBothDatesUnclamped ==
  \A id \in DOMAIN bars :
    gesture(id, "move") =>
       LET t == taskById(tasks, id)
       IN  /\ t.endDate - t.startDate =
                bars[id].dragStart.taskEnd - bars[id].dragStart.taskStart
           /\ lastEvent.type = "mousemove" =>
                /\ t.startDate = addDays(bars[id].dragStart.taskStart, lastDaysDelta(id))
                /\ t.endDate = addDays(bars[id].dragStart.taskEnd, lastDaysDelta(id))

\* a move gesture has carried its task out of the visible window
C7_Witness ==
  \E id \in DOMAIN bars :
    /\ lastEvent.type = "mousemove"
    /\ gesture(id, "move")
    /\ lastDaysDelta(id) # 0
    /\ isRendered([startDate |-> bars[id].dragStart.taskStart,
                   endDate |-> bars[id].dragStart.taskEnd])
    /\ ~isRendered(taskById(tasks, id))

\* C8: at every zoom level a bar is at least one day wide; it is
\* (daysBetween(startDate, endDate) + 1) days wide when startDate <= endDate
\* and exactly one day wide for a negative duration
C8_BarWidthIsInclusiveDayCount ==
  \A i \in DOMAIN tasks, z \in ZoomLevels :
    LET t == tasks[i]
    IN  /\ barWidth(t, z) >= pixelsPerDay(z)
        /\ t.startDate <= t.endDate =>
             barWidth(t, z) = (differenceInDays(t.endDate, t.startDate) + 1) * pixelsPerDay(z)
        /\ t.startDate > t.endDate => barWidth(t, z) = pixelsPerDay(z)

\* C9: of two bars drawn at the same zoom level, the one whose task starts
\* more days after the window start has the strictly larger left offset
C9_BarLeftStrictlyIncreasing ==
  \A i \in DOMAIN displayed, j \in DOMAIN displayed, z \in ZoomLevels :
    (/\ isRendered(displayed[i])
     /\ isRendered(displayed[j])
     /\ differenceInDays(displayed[i].startDate, startDate)
          < differenceInDays(displayed[j].startDate, startDate))
      => barLeft(displayed[i], z) < barLeft(displayed[j], z)

sameLetter(c, d) == c = d \/ {c, d} = {"a", "A"} \/ {c, d} = {"b", "B"}

containsIgnoringCase(name, text) ==
  \E k \in 0 .. Len(name) :
    /\ k + Len(text) <= Len(name)
    /\ \A m \in 1 .. Len(text) : sameLetter(name[k + m], text[m])

occurrences(seq, e) == Cardinality({j \in DOMAIN seq : seq[j] = e})

\* C10: the displayed list holds each task of the collection whose name
\* contains the search text, case ignored, and whose status passes the
\* status filter, exactly once, and nothing else
C10_FilteredViewIsExactlyTheMatches ==
  /\ \A i \in DOMAIN tasks :
       occurrences(displayed, tasks[i]) =
         IF /\ containsIgnoringCase(tasks[i].name, searchQuery)
            /\ (statusFilter = "all" \/ tasks[i].status = statusFilter)
           THEN 1 ELSE 0
  /\ \A j \in DOMAIN displayed : occurrences(tasks, displayed[j]) = 1

\* search "ab" and status filter "completed" over a collection of three:
\* only task 1 ("Ab", completed) is displayed
C10_Witness ==
  /\ searchQuery = <<"a", "b">>
  /\ statusFilter = "completed"
  /\ Len(tasks) = 3
  /\ Len(displayed) = 1
  /\ displayed[1].id = "1"

rankOfPriority(p) == CASE p = "high" -> 3 [] p = "medium" -> 2 [] p = "low" -> 1

\* C11: the displayed list is in non-decreasing order of startDate, of
\* endDate or of name (locale order), or in non-increasing order of priority
\* rank, whichever sort key is selected; under the status filter "completed"
\* every element is completed
C11_DisplayedOrderedBySortKey ==
  /\ \A i \in DOMAIN displayed, j \in DOMAIN displayed :
       i < j =>
         /\ sortBy = "startDate" => displayed[i].startDate <= displayed[j].startDate
         /\ sortBy = "endDate" => displayed[i].endDate <= displayed[j].endDate
         /\ sortBy = "name" => localeCompare(displayed[i].name, displayed[j].name) <= 0
         /\ sortBy = "priority" =>
              rankOfPriority(displayed[i].priority) >= rankOfPriority(displayed[j].priority)
  /\ statusFilter = "completed" =>
       \A i \in DOMAIN displayed : displayed[i].status = "completed"

\* status filter "completed" and sort by name over a collection of three:
\* two completed tasks are displayed, with different names
C11_Witness ==
  /\ statusFilter = "completed"
  /\ sortBy = "name"
  /\ searchQuery = << >>
  /\ Len(tasks) = 3
  /\ Len(displayed) = 2
  /\ displayed[1].name # displayed[2].name

positionIn(seq, e) == CHOOSE k \in DOMAIN seq : seq[k] = e

sameSortKey(a, b, key) ==
  \/ key = "startDate" /\ a.startDate = b.startDate
  \/ key = "endDate" /\ a.endDate = b.endDate
  \/ key = "name" /\ a.name = b.name
  \/ key = "priority" /\ rankOfPriority(a.priority) = rankOfPriority(b.priority)

\* C12 (amended): two displayed tasks with equal sort keys are in the same
\* relative order as in the task collection
C12_EqualKeysKeepCollectionOrder ==
  \A i \in DOMAIN displayed, j \in DOMAIN displayed :
    (i < j /\ sameSortKey(displayed[i], displayed[j], sortBy)) =>
       positionIn(tasks, displayed[i]) < positionIn(tasks, displayed[j])

\* sorted by endDate, the two sample tasks end on the same day and are
\* displayed in collection order, which is not their startDate order
C12_Witness ==
  /\ sortBy = "endDate"
  /\ Len(displayed) >= 2
  /\ displayed[1].id = "1"
  /\ displayed[2].id = "2"
  /\ displayed[1].endDate = displayed[2].endDate
  /\ displayed[2].startDate < displayed[1].startDate

\* the arrangements of the filtered tasks that the comparator accepts as
\* sorted: what a sort may return if nothing but the comparator decides
comparatorSorted(ft, key) ==
  {p \in Permutations(DOMAIN ft) :
     \A a \in DOMAIN ft, b \in DOMAIN ft :
       a < b => compareTasks(ft[p[a]], ft[p[b]], key) <= 0}

\* C12: equal keys keep collection order, and this is guaranteed by the
\* implementation itself: every arrangement its comparator accepts as sorted
\* has the tasks with equal keys in collection order
C12_StableByExplicitGuarantee ==
  /\ C12_EqualKeysKeepCollectionOrder
  /\ LET ft == FilterTasks(tasks, searchQuery, statusFilter)
     IN  \A p \in comparatorSorted(ft, sortBy) :
           \A a \in DOMAIN ft, b \in DOMAIN ft :
             (a < b /\ sameSortKey(ft[p[a]], ft[p[b]], sortBy)) => p[a] < p[b]

\* C13: all task ids of the collection are pairwise distinct
C13_TaskIdsPairwiseDistinct ==
  \A i \in DOMAIN tasks, j \in DOMAIN tasks : tasks[i].id = tasks[j].id => i = j

\* C14: an update replaces every entry with the id of the updated task by
\* the updated task and leaves every other entry, the length and the order
\* as they were; with an id no entry has, the collection is unchanged
C14_UpdateReplacesOnlyMatchingEntry ==
  [][lastEvent'.type = "update" =>
       /\ Len(tasks') = Len(tasks)
       /\ \A i \in DOMAIN tasks :
            tasks'[i] = IF tasks[i].id = lastEvent'.at.id THEN lastEvent'.at ELSE tasks[i]
       /\ lastEvent'.at.id \notin taskIds(tasks) => tasks' = tasks]_vars

\* task 2 was just updated to completed: task 1 is as it was, before it
C14_Witness ==
  /\ lastEvent.type = "update"
  /\ lastEvent.at.id = "2"
  /\ lastEvent.at.status = "completed"
  /\ tasks = <<sampleTasks[1], [sampleTasks[2] EXCEPT !.status = "completed"]>>

\* C15: a delete leaves no task with the id, and the tasks with other ids
\* stay, unchanged and in the same order; with an id no task has, the
\* collection is unchanged
C15_DeleteRemovesOnlyThatTask ==
  [][lastEvent'.type = "delete" =>
       /\ lastEvent'.at \notin taskIds(tasks')
       /\ tasks' = SelectSeq(tasks, LAMBDA t : t.id # lastEvent'.at)
       /\ lastEvent'.at \notin taskIds(tasks) => tasks' = tasks]_vars

\* a task was created, then task 1 deleted: task 2 and the created task
\* remain, in that order
C15_Witness ==
  /\ lastEvent.type = "delete"
  /\ lastEvent.at = "1"
  /\ Len(tasks) = 2
  /\ tasks[1] = sampleTasks[2]
  /\ tasks[2].id = DateNow

hasMissingEndpoint(dependency) ==
  \/ dependency.fromTaskId \notin taskIds(displayed)
  \/ dependency.toTaskId \notin taskIds(displayed)

\* no edge of the store makes the routing code read a task that is missing
noLookupFailure == \A i \in DOMAIN dependencies : arrows[i] # TypeError

\* C16: rendering the store never dereferences a missing endpoint task, and
\* for an edge with a missing endpoint nothing is drawn
C16_StaleEdgeSkippedAtRender ==
  /\ noLookupFailure
  /\ \A i \in DOMAIN dependencies :
       hasMissingEndpoint(dependencies[i]) => arrows[i] = nothing

edgeIds(deps) == {deps[i].id : i \in DOMAIN deps}

\* C17: a delete of an edge id removes the one edge with that id and leaves
\* every other edge, in order, and every task unchanged; with an id the
\* store does not hold, the store is unchanged
C17_DeleteDependencyRemovesOnlyThatEdge ==
  [][lastEvent'.type = "dependencyDelete" =>
       /\ tasks' = tasks
       /\ lastEvent'.at \notin edgeIds(dependencies')
       /\ dependencies' = SelectSeq(dependencies, LAMBDA dep : dep.id # lastEvent'.at)
       /\ lastEvent'.at \in edgeIds(dependencies) =>
            Len(dependencies') = Len(dependencies) - 1
       /\ lastEvent'.at \notin edgeIds(dependencies) => dependencies' = dependencies]_vars

\* of the edges 2 -> 1 and 1 -> 2, the second was just deleted
C17_Witness ==
  /\ lastEvent.type = "dependencyDelete"
  /\ lastEvent.at = <<"1", "-to-", "2">>
  /\ Len(dependencies) = 1
  /\ dependencies[1] = [id |-> <<"2", "-to-", "1">>, fromTaskId |-> "2", toTaskId |-> "1"]
  /\ tasks = sampleTasks

\* C18: a bar's listener pair is registered by a pointer-down on it and by
\* nothing else; after a pointer-up no bar has a listener registered and
\* every bar is idle; a bar with no listener registered, one mounted again
\* after it was unmounted mid-gesture included, is idle
C18_ListenersOnlyDuringGesture ==
  [][/\ lastEvent'.type = "mousedown" =>
          \E id \in DOMAIN bars' : listeners' = listeners \cup {id}
     /\ lastEvent'.type # "mousedown" => listeners' \subseteq listeners
     /\ lastEvent'.type = "mouseup" => listeners' = {}
     /\ \A id \in DOMAIN bars' : id \notin listeners' => isIdle(bars'[id])]_vars

\* a link gesture that moved the pointer was just released on target: the
\* edge is in the store, no listener is registered and both bars are idle
C18_Witness ==
  /\ lastEvent.type = "mouseup"
  /\ lastEvent.calls # << >>
  /\ Len(dependencies) = 1
  /\ listeners = {}
  /\ DOMAIN bars = {"1", "2"}
  /\ \E id \in DOMAIN bars : bars[id].dragStart.x # 0
  /\ \A id \in DOMAIN bars : isIdle(bars[id])

(***************************************************************************)
(* C19: gestures are serialized: in no reachable state are two different   *)
(* bars in the dragging state, also when a pointer-down arrives on a       *)
(* second bar before the first bar has received its pointer-up.            *)
(***************************************************************************)
C19_AtMostOneBarDragging == Cardinality(listeners) <= 1

(***************************************************************************)
(* C20: live preview is live commit.  During a move or resize gesture      *)
(* every pointer move that changes the dates invokes onTaskUpdate at once, *)
(* one call per pointer event and in the order of the events, so that      *)
(* after each move the collection holds the dates computed from that move; *)
(* a pointer-up, and every step that is not a pointer move, changes no     *)
(* task, so at pointer-up the collection holds the dates of the last move. *)
(***************************************************************************)
C20_LivePreviewIsLiveCommit ==
  [][/\ lastEvent'.type # "mousemove" => tasks' = tasks
     /\ lastEvent'.type = "mousemove" =>
          /\ Len(lastEvent'.calls) <= Cardinality(listeners)
          /\ \A id \in listeners :
               bars[id].dragType \in DragTypes =>
                 LET old == taskById(tasks, id)
                     dd == daysDeltaOf(bars[id], lastEvent'.at, zoomLevel)
                     ns == newStartDate(bars[id], dd)
                     ne == newEndDate(bars[id], dd)
                 IN  /\ taskById(tasks', id).startDate = ns
                     /\ taskById(tasks', id).endDate = ne
                     /\ (ns # old.startDate \/ ne # old.endDate) =>
                          \E i \in DOMAIN lastEvent'.calls :
                            lastEvent'.calls[i] =
                              [fn |-> "onTaskUpdate", by |-> id,
                               task |-> [old EXCEPT !.startDate = ns,
                                                    !.endDate = ne]]]_vars

\* a gesture released after its moves changed a task's dates: the collection
\* holds dates other than the sample's, and every bar is idle
C20_Witness ==
  /\ lastEvent.type = "mouseup"
  /\ lastEvent.calls = << >>
  /\ \A id \in DOMAIN bars : isIdle(bars[id])
  /\ \E i \in DOMAIN tasks : \E j \in DOMAIN sampleTasks :
       /\ tasks[i].id = sampleTasks[j].id
       /\ tasks[i].startDate # sampleTasks[j].startDate
       /\ tasks[i].endDate # sampleTasks[j].endDate

\* a form the drawer may commit: a name with a character that is not a
\* blank, both dates present, the end date after the start date
formIsValid(formData) ==
  /\ \E k \in DOMAIN formData.name : formData.name[k] # " "
  /\ Len(formData.startDate) = 1
  /\ Len(formData.endDate) = 1
  /\ formData.endDate[1] > formData.startDate[1]

commitCalls(calls) ==
  SelectSeq(calls, LAMBDA c : c.fn \in {"onTaskUpdate", "onTaskCreate"})

(***************************************************************************)
(* C21: the drawer's save commits iff the form is valid.  With a blank     *)
(* name, a missing date or an end date not after the start date, save      *)
(* invokes none of onTaskCreate, onTaskUpdate, onClose: the collection is  *)
(* unchanged, the drawer stays open and a field error is recorded.  With a *)
(* valid form it invokes exactly one of onTaskUpdate (a task is edited,    *)
(* its id kept) and onTaskCreate (no task selected), then closes.          *)
(***************************************************************************)
C21_SaveCommitsIffFormValid ==
  [][lastEvent'.type = "save" =>
       IF formIsValid(drawer.formData)
         THEN /\ Len(commitCalls(lastEvent'.calls)) = 1
              /\ lastEvent'.calls[Len(lastEvent'.calls)].fn = "onClose"
              /\ ~drawer'.isOpen
              /\ IF drawer.task # << >>
                   THEN /\ lastEvent'.calls[1].fn = "onTaskUpdate"
                        /\ lastEvent'.calls[1].task.id = drawer.task[1].id
                        /\ taskIds(tasks') = taskIds(tasks)
                        /\ Len(tasks') = Len(tasks)
                   ELSE /\ lastEvent'.calls[1].fn = "onTaskCreate"
                        /\ Len(tasks') = Len(tasks) + 1
         ELSE /\ lastEvent'.calls = << >>
              /\ tasks' = tasks
              /\ drawer'.isOpen
              /\ drawer'.task = drawer.task
              /\ drawer'.formData = drawer.formData
              /\ drawer'.errors # {}]_vars

\* a save of an edited task was just refused for a blank name and an end
\* date equal to the start date, after a save of a new task had gone through
C21_Witness ==
  /\ lastEvent.type = "save"
  /\ lastEvent.calls = << >>
  /\ drawer.isOpen
  /\ drawer.task # << >>
  /\ drawer.errors = {"name", "endDate"}
  /\ drawer.formData.startDate = drawer.formData.endDate
  /\ Len(tasks) = Len(sampleTasks) + 1

(***************************************************************************)
(* C22: at every zoom level the date columns are the consecutive calendar  *)
(* days from today-60 to today+180 inclusive, each one day after the one   *)
(* before (241 entries); the loop ends, and the grid's total width is the  *)
(* number of columns times pixelsPerDay.                                   *)
(***************************************************************************)
C22_DateColumnsAreConsecutiveDays ==
  LET dates == dateColumns[zoomLevel]
  IN  /\ Len(dates) = 241
      /\ Len(dates) = WindowBefore + WindowAfter + 1
      /\ dates[1] = addDays(today, 0 - 60)
      /\ dates[Len(dates)] = addDays(today, 180)
      /\ \A i \in 1 .. (Len(dates) - 1) : dates[i + 1] = addDays(dates[i], 1)
      /\ totalWidth(zoomLevel) = 241 * pixelsPerDay(zoomLevel)

\* the grid rendered at month zoom after a change of the zoom level
C22_Witness ==
  /\ lastEvent.type = "zoom"
  /\ zoomLevel = "month"
  /\ Len(dateColumns[zoomLevel]) = 241
  /\ totalWidth(zoomLevel) = 9640

\* the instants from a task's start to its end and those of the visible
\* window have an instant in common
intersectsWindow(task) ==
  \E t \in task.startDate .. task.endDate : startDate <= t /\ t <= endDate

(***************************************************************************)
(* C23: a bar is rendered iff the task's [startDate, endDate] intersects   *)
(* the visible window: a task that ends before the window start or starts  *)
(* after the window end renders no bar, a task that only partly overlaps   *)
(* the window is rendered, and this holds of the dates of every render.    *)
(***************************************************************************)
C23_BarRenderedIffTaskIntersectsWindow ==
  \A i \in DOMAIN displayed :
    /\ isRendered(displayed[i]) <=> intersectsWindow(displayed[i])
    /\ displayed[i].endDate < addDays(today, 0 - 60) => ~isRendered(displayed[i])
    /\ displayed[i].startDate > addDays(today, 180) => ~isRendered(displayed[i])

\* after a pointer move of a gesture one task lies wholly before the window
\* and has no bar, one starts after the window end and has no bar, and one
\* starts before the window, ends in it and has its bar
C23_Witness ==
  /\ lastEvent.type = "mousemove"
  /\ \E k \in DOMAIN displayed :
       displayed[k].startDate > endDate /\ ~isRendered(displayed[k])
  /\ \E i \in DOMAIN displayed :
       displayed[i].endDate < startDate /\ ~isRendered(displayed[i])
  /\ \E j \in DOMAIN displayed :
       /\ displayed[j].startDate < startDate
       /\ displayed[j].endDate >= startDate
       /\ isRendered(displayed[j])

\* the right edge and the vertical centre of the bar TaskBar draws
barRight(task, z) == barLeft(task, z) + barWidth(task, z)

barCentreY(rowIndex) == 80 + (rowIndex * 48 + 8) + 16

\* the point p lies on the segment from a to b
onSegment(p, a, b) ==
  /\ (p[1] - a[1]) * (b[2] - a[2]) = (p[2] - a[2]) * (b[1] - a[1])
  /\ (a[1] <= p[1] /\ p[1] <= b[1]) \/ (b[1] <= p[1] /\ p[1] <= a[1])
  /\ (a[2] <= p[2] /\ p[2] <= b[2]) \/ (b[2] <= p[2] /\ p[2] <= a[2])

onPath(p, pathData) ==
  \E k \in 1 .. (Len(pathData) - 1) : onSegment(p, pathData[k], pathData[k + 1])

\* the edges of the store for which the first grid emits a path, each with
\* its endpoint tasks, their rows and the routing
routedEdges ==
  {[fromTask |-> displayed[i], toTask |-> displayed[j], fromIndex |-> i - 1,
    toIndex |-> j - 1, route |-> arrowPath(displayed[i], displayed[j], i - 1, j - 1, zoomLevel)] :
     <<i, j>> \in {ij \in (DOMAIN displayed) \X (DOMAIN displayed) :
                     \E d \in DOMAIN dependencies :
                       /\ findIndex(displayed, dependencies[d].fromTaskId) = ij[1]
                       /\ findIndex(displayed, dependencies[d].toTaskId) = ij[2]}}

(***************************************************************************)
(* C24: for every rendered edge the path starts at (right edge of the      *)
(* source bar, centre of the source row) and ends at (left edge of the     *)
(* target bar, centre of the target row).  When toStartX - fromEndX        *)
(* exceeds 15 px the turn is made at the horizontal midpoint, strictly     *)
(* between the two edges; otherwise the path first runs 15 px right of the *)
(* source before it turns, so that no segment on the source row lies left  *)
(* of the source's right edge.  The centre of the delete button lies on    *)
(* the path.                                                               *)
(***************************************************************************)
C24_ArrowJoinsBarEdgesAndRoutesAroundSource ==
  \A e \in routedEdges :
    LET pathData == e.route.pathData
        fromEndX == barRight(e.fromTask, zoomLevel)
        toStartX == barLeft(e.toTask, zoomLevel)
    IN  /\ pathData[1] = <<fromEndX, barCentreY(e.fromIndex)>>
        /\ pathData[Len(pathData)] = <<toStartX, barCentreY(e.toIndex)>>
        /\ (toStartX - fromEndX > 15 /\ e.fromIndex # e.toIndex) =>
             /\ Len(pathData) = 4
             /\ pathData[2][1] = pathData[3][1]
             /\ 2 * pathData[2][1] = fromEndX + toStartX
             /\ fromEndX < pathData[2][1] /\ pathData[2][1] < toStartX
        /\ toStartX - fromEndX <= 15 =>
             /\ Len(pathData) = 4
             /\ pathData[2] = <<fromEndX + 15, barCentreY(e.fromIndex)>>
             /\ pathData[3][1] = fromEndX + 15
        /\ \A k \in DOMAIN pathData :
             pathData[k][2] = barCentreY(e.fromIndex) /\ e.fromIndex # e.toIndex
               => pathData[k][1] >= fromEndX
        /\ onPath(<<e.route.midX, e.route.midY>>, pathData)

\* the parts of C24 that do not name the bars: the path runs between the two
\* points the routing computes, turns at their midpoint or after the stub,
\* and carries the delete button
arrowPathIsWellFormed ==
  \A e \in routedEdges :
    LET pathData == e.route.pathData
        startX == pathData[1][1]
        targetX == pathData[Len(pathData)][1]
    IN  /\ pathData[1][2] = barCentreY(e.fromIndex)
        /\ pathData[Len(pathData)][2] = barCentreY(e.toIndex)
        /\ (targetX - startX >= 15 /\ e.fromIndex # e.toIndex) =>
             /\ 2 * pathData[2][1] = startX + targetX
             /\ startX < pathData[2][1] /\ pathData[2][1] < targetX
        /\ targetX - startX < 15 => pathData[2][1] = startX + 15
        /\ onPath(<<e.route.midX, e.route.midY>>, pathData)

\* the dates of a task as a function of the gesture's type, of its anchor
\* (pointer x and dates captured at pointer-down) and of the pointer x
datesAt(type, anchor, x, z) ==
  LET dd == MathRound(x - anchor.x, pixelsPerDay(z))
      s == anchor.taskStart + dd * TicksPerDay
      e == anchor.taskEnd + dd * TicksPerDay
  IN  IF type = "move" THEN [startDate |-> s, endDate |-> e]
      ELSE IF type = "resize-start"
        THEN [startDate |-> IF s >= anchor.taskEnd THEN anchor.taskEnd - TicksPerDay ELSE s,
              endDate |-> anchor.taskEnd]
      ELSE [startDate |-> anchor.taskStart,
            endDate |-> IF e <= anchor.taskStart THEN anchor.taskStart + TicksPerDay ELSE e]

(***************************************************************************)
(* C25: a move or resize gesture is path-independent.  The anchor is the   *)
(* pointer x and the task's dates at pointer-down and stays as captured;   *)
(* after each pointer move the task's dates are a function of the anchor   *)
(* and of the current pointer x alone, whatever the pointer did before; in *)
(* particular, for a task with start < end at pointer-down, a move of the  *)
(* pointer back to the anchor x restores the dates of pointer-down.        *)
(***************************************************************************)
C25_GestureIsPathIndependent ==
  [][/\ lastEvent'.type = "mousedown" =>
          \A id \in listeners' \ listeners :
            /\ bars'[id].dragStart.x = lastEvent'.at
            /\ bars'[id].dragStart.taskStart = taskById(tasks, id).startDate
            /\ bars'[id].dragStart.taskEnd = taskById(tasks, id).endDate
     /\ lastEvent'.type = "mousemove" =>
          \A id \in listeners :
            bars[id].dragType \in DragTypes =>
              LET anchor == bars[id].dragStart
                  t == taskById(tasks', id)
                  d == datesAt(bars[id].dragType, anchor, lastEvent'.at, zoomLevel)
              IN  /\ bars'[id].dragStart = anchor
                  /\ t.startDate = d.startDate
                  /\ t.endDate = d.endDate
                  /\ (lastEvent'.at = anchor.x /\ anchor.taskStart < anchor.taskEnd) =>
                       t.startDate = anchor.taskStart /\ t.endDate = anchor.taskEnd]_vars

\* the pointer of a gesture pressed away from x = 0 is at the anchor x after
\* a pointer move, at a zoom level other than the initial one, and the task
\* has the dates of pointer-down
C25_Witness ==
  /\ lastEvent.type = "mousemove"
  /\ zoomLevel # "week"
  /\ \E id \in listeners :
       /\ bars[id].dragType \in DragTypes
       /\ lastEvent.at = bars[id].dragStart.x
       /\ bars[id].dragStart.x # 0
       /\ taskById(tasks, id).startDate = bars[id].dragStart.taskStart
       /\ taskById(tasks, id).endDate = bars[id].dragStart.taskEnd

\* a task with its two dates left out
withoutDates(task) ==
  [id |-> task.id, name |-> task.name, status |-> task.status, priority |-> task.priority]

(***************************************************************************)
(* C26: a move or resize gesture changes only the startDate and endDate of *)
(* the dragged task: every other field of that task, every other task,     *)
(* the order of the collection and the dependency store stay as they are;  *)
(* a resize-start never changes endDate and a resize-end never changes     *)
(* startDate.                                                              *)
(***************************************************************************)
C26_GestureChangesOnlyDatesOfDraggedTask ==
  [][\A id \in listeners' \cup listeners :
       LET bar == IF id \in listeners THEN bars[id] ELSE bars'[id]
       IN  bar.dragType \in DragTypes =>
             /\ dependencies' = dependencies
             /\ Len(tasks') = Len(tasks)
             /\ \A i \in DOMAIN tasks :
                  /\ withoutDates(tasks'[i]) = withoutDates(tasks[i])
                  /\ tasks[i].id # id => tasks'[i] = tasks[i]
                  /\ (tasks[i].id = id /\ bar.dragType = "resize-start") =>
                       tasks'[i].endDate = tasks[i].endDate
                  /\ (tasks[i].id = id /\ bar.dragType = "resize-end") =>
                       tasks'[i].startDate = tasks[i].startDate]_vars

\* a pointer move of a resize-start gesture has changed the start date of
\* the second task of the collection and nothing else
C26_Witness ==
  /\ lastEvent.type = "mousemove"
  /\ lastEvent.calls # << >>
  /\ gesture(tasks[2].id, "resize-start")
  /\ tasks[1] = sampleTasks[1]
  /\ tasks[2].startDate # sampleTasks[2].startDate
  /\ tasks[2] = [sampleTasks[2] EXCEPT !.startDate = tasks[2].startDate]
  /\ dependencies = << >>

(***************************************************************************)
(* C27: from a collection in which every task has startDate < endDate,     *)
(* every reachable state has startDate < endDate for every task, under any *)
(* sequence of move, resize-start and resize-end gestures, drawer creates  *)
(* and edits, status edits from the list panel, and deletes.               *)
(***************************************************************************)
C27_StartBeforeEndIsInvariant ==
  \A i \in DOMAIN tasks : tasks[i].startDate < tasks[i].endDate

\* a task created in the drawer, shorter than a day, has had its end dragged
\* left past its start by a resize-end gesture and ends a day after its
\* start
C27_Witness ==
  /\ lastEvent.type = "mousemove"
  /\ lastEvent.calls # << >>
  /\ \E i \in DOMAIN tasks :
       /\ tasks[i].id \in ClockReadings
       /\ gesture(tasks[i].id, "resize-end")
       /\ bars[tasks[i].id].dragStart.taskEnd - tasks[i].startDate < TicksPerDay
       /\ tasks[i].endDate = addDays(tasks[i].startDate, 1)

(***************************************************************************)
(* C28: redundant commits are suppressed.  A pointer move of a move or     *)
(* resize gesture whose computed start and end dates are the dates the     *)
(* task has now (daysDelta unchanged since the pointer move before, or     *)
(* daysDelta = 0 right after pointer-down) does not invoke onTaskUpdate.   *)
(***************************************************************************)
C28_RedundantCommitsAreSuppressed ==
  [][lastEvent'.type = "mousemove" =>
       \A id \in listeners :
         bars[id].dragType \in DragTypes =>
           LET old == taskById(tasks, id)
               dd == daysDeltaOf(bars[id], lastEvent'.at, zoomLevel)
           IN  (/\ newStartDate(bars[id], dd) = old.startDate
                /\ newEndDate(bars[id], dd) = old.endDate) =>
                 \A i \in DOMAIN lastEvent'.calls :
                   ~(/\ lastEvent'.calls[i].fn = "onTaskUpdate"
                     /\ lastEvent'.calls[i].by = id)]_vars

(***************************************************************************)
(* C29: a dependency arrow is drawn only between two bars that are both    *)
(* rendered: for every edge for which a path is emitted, both endpoint     *)
(* tasks are in the displayed list and both lie inside the visible date    *)
(* window.                                                                 *)
(***************************************************************************)
C29_ArrowOnlyBetweenRenderedBars ==
  \A i \in DOMAIN dependencies :
    arrows[i].kind = "path" =>
      /\ dependencies[i].fromTaskId \in taskIds(displayed)
      /\ dependencies[i].toTaskId \in taskIds(displayed)
      /\ isRendered(taskById(displayed, dependencies[i].fromTaskId))
      /\ isRendered(taskById(displayed, dependencies[i].toTaskId))

\* the first half of C29: a path is emitted only for an edge whose two
\* endpoint tasks are in the displayed list
arrowEndpointsAreDisplayed ==
  \A i \in DOMAIN dependencies :
    arrows[i].kind = "path" =>
      /\ dependencies[i].fromTaskId \in taskIds(displayed)
      /\ dependencies[i].toTaskId \in taskIds(displayed)

\* the row the task of id had in the displayed list at pointer-down of the
\* gesture in progress on its bar, the gesture having changed nothing but
\* the dates of that task
rowAtPointerDown(id) ==
  findIndex(filteredTasksOf([i \in DOMAIN tasks |->
                               IF tasks[i].id = id
                                 THEN [tasks[i] EXCEPT !.startDate = bars[id].dragStart.taskStart,
                                                       !.endDate = bars[id].dragStart.taskEnd]
                                 ELSE tasks[i]],
                            searchQuery, statusFilter, sortBy),
            id)

(***************************************************************************)
(* C30: a gesture stays bound to its origin task.  A pointer move leaves   *)
(* the gesture on the bar it was started on, with the anchor of            *)
(* pointer-down, whatever row that bar has after the list was sorted anew; *)
(* every onTaskUpdate emitted between pointer-down on task T and the next  *)
(* pointer-up comes from a pointer move, carries the id of T, and has the  *)
(* non-date fields T has at that moment.                                   *)
(***************************************************************************)
C30_GestureStaysBoundToOriginTask ==
  [][/\ lastEvent'.type = "mousemove" =>
          /\ listeners' = listeners
          /\ \A id \in listeners :
               /\ bars'[id].dragType = bars[id].dragType
               /\ bars'[id].dragStart = bars[id].dragStart
     /\ lastEvent'.type \in {"mousemove", "mouseup"} =>
          \A i \in DOMAIN lastEvent'.calls :
            lastEvent'.calls[i].fn = "onTaskUpdate" =>
              /\ lastEvent'.type = "mousemove"
              /\ lastEvent'.calls[i].by \in listeners
              /\ bars[lastEvent'.calls[i].by].dragType \in DragTypes
              /\ lastEvent'.calls[i].task.id = lastEvent'.calls[i].by
              /\ withoutDates(lastEvent'.calls[i].task)
                   = withoutDates(taskById(tasks, lastEvent'.calls[i].by))]_vars

\* a pointer move of a gesture has changed the dates of its task, and the
\* task is now in another row than at pointer-down
C30_Witness ==
  /\ lastEvent.type = "mousemove"
  /\ Len(lastEvent.calls) = 1
  /\ \E id \in listeners :
       /\ bars[id].dragType \in DragTypes
       /\ lastEvent.calls[1].by = id
       /\ findIndex(displayed, id) # rowAtPointerDown(id)

====
